---- MODULE Spec2Model ----
(***************************************************************************)
(* Polymer engine of pinetree (src/src/pinetree/polymer.cpp): one polymer  *)
(* with its binding sites, release sites, mask, bound polymerases, the     *)
(* parallel propensity list and the cache of uncovered binding sites.      *)
(*                                                                         *)
(* Coordinates are 1-indexed and inclusive.  Weights, speeds and           *)
(* propensities are integers; a termination efficiency is a percentage.    *)
(* Sequences are 1-based here, the vectors of the source are 0-based: the  *)
(* index pol_index of the source is i - 1 for the index i of this module.  *)
(*                                                                         *)
(* An exception leaves the objects as the code left them when it threw.    *)
(* The errors raised by Bind before insertion and the zero-propensity      *)
(* error of Execute are handled by the caller, which goes on; every other  *)
(* runtime_error leaves the simulation loop and ends the run, so no        *)
(* operation follows it (Fatal).                                           *)
(***************************************************************************)
EXTENDS Integers, Sequences, FiniteSets, TLC

\* Length of the polymer: its coordinates are start_ .. stop_ = 1 .. PolymerLen.
PolymerLen == 6
\* Number of polymerases that Insert may place on the polymer in one run.
MaxPols == 2
\* Number of promoters registered on the polymer.
MaxPromoters == 2
\* Number of connect calls made on one Signal.
MaxConnects == 3

VARIABLES
  start_, stop_,          \* bounds of the polymer
  weights_,               \* weights_[0 .. stop_ - start_]
  mask_,                  \* [start, stop, interactions]
  binding_intervals_,     \* promoters given to the polymer before Initialize
  release_intervals_,     \* terminators given to the polymer before Initialize
  binding_sites_,         \* ids of the promoters held by the interval tree
  release_sites_,         \* ids of the terminators held by the interval tree
  covered,                \* covered bit of every promoter
  saved,                  \* bit copied by SaveState for every promoter
  readthrough,            \* readthrough flag of every terminator
  pols,                   \* polymerase objects inserted so far, by identity
  last_pol,               \* polymerase object of the latest call, if a Bind that failed
  polymerases_,           \* identities of the bound polymerases, in order
  prop_list_,             \* propensity of each bound polymerase
  prop_sum_,              \* cached sum of prop_list_
  uncovered_,             \* name -> count of uncovered promoters
  species_log_,           \* name -> signed change since the last Execute
  terminations,           \* arguments of the termination_signal_ emissions
  initialized,            \* Initialize has run
  err,                    \* how the latest call ended
  transcript_rbs_intervals_,        \* Genome: ribosome binding sites of AddGene
  transcript_stop_site_intervals_,  \* Genome: stop codons of AddGene
  transcript_weights_,    \* Genome: weights handed to every transcript
  transcript_rbs_,        \* Genome: ids held by the tree of binding sites
  transcript_stop_sites_, \* Genome: ids held by the tree of stop codons
  transcripts,            \* transcripts handed to transcript_signal_, in order
  slots_,                 \* a Signal: id -> connected slot (std::map)
  current_id_,            \* a Signal: the id given out last
  handles,                \* history: [id, slot] of every connect whose id was
                          \* not disconnected since, in the order of the calls
  invoked                 \* history: the slots called by the latest emit

vars == << start_, stop_, weights_, mask_, binding_intervals_,
           release_intervals_, binding_sites_, release_sites_, covered, saved,
           readthrough, pols, last_pol, polymerases_, prop_list_, prop_sum_,
           uncovered_, species_log_, terminations, initialized, err,
           transcript_rbs_intervals_, transcript_stop_site_intervals_,
           transcript_weights_, transcript_rbs_, transcript_stop_sites_,
           transcripts, slots_, current_id_, handles, invoked >>

config == << start_, stop_, weights_, binding_intervals_, release_intervals_ >>

\* A Signal object and the history of the calls made on it.
signal == << slots_, current_id_, handles, invoked >>

\* What AddGene and AddWeights give a Genome, and the trees Genome::Initialize
\* builds from it.
templates == << transcript_rbs_intervals_, transcript_stop_site_intervals_,
               transcript_weights_, transcript_rbs_, transcript_stop_sites_ >>

-----------------------------------------------------------------------------
(* Values the polymer is built from. *)

\* Promoters that AddPromoter / AddGene may have registered.
PromoterPool ==
  << [name |-> "P", start |-> 1, stop |-> 1, interactions |-> {"rnapol"}],
     [name |-> "P", start |-> 2, stop |-> 3, interactions |-> {"rnapol"}],
     [name |-> "Q", start |-> 3, stop |-> 4,
      interactions |-> {"rnapol", "ribosome"}],
     [name |-> "Q", start |-> 5, stop |-> 6, interactions |-> {"rnapol"}] >>

\* Terminators that AddTerminator may have registered; efficiency in percent.
TerminatorPool ==
  << [name |-> "T", start |-> 5, stop |-> 6, gene |-> "g1", reading_frame |-> -1,
      efficiency |-> [n \in {"rnapol"} |-> 100]],
     [name |-> "U", start |-> 4, stop |-> 4, gene |-> "g2", reading_frame |-> -1,
      efficiency |-> [n \in {"rnapol", "ribosome"} |-> 50]] >>

\* Polymerases the caller may construct: name, footprint and speed.
PolKinds ==
  { [name |-> "rnapol", footprint |-> 3, speed |-> 1],
    [name |-> "rnapol", footprint |-> 1, speed |-> 2],
    [name |-> "ribosome", footprint |-> 2, speed |-> 1] }

PromoterNames == {"P", "Q"}

\* Genes that AddGene may have registered: the ribosome binding site
\* [rbs_start, rbs_stop] and the coding span [start, stop].
GenePool ==
  << [name |-> "g1", start |-> 4, stop |-> 6, rbs_start |-> 2, rbs_stop |-> 3],
     [name |-> "g2", start |-> 2, stop |-> 4, rbs_start |-> 1, rbs_stop |-> 1] >>

\* The promoter AddGene builds for the ribosome binding site of a gene.
GeneRbs(gene) ==
  [name |-> gene.name \o "_rbs", start |-> gene.rbs_start,
   stop |-> gene.rbs_stop, interactions |-> {"ribosome"}, gene |-> gene.name]

\* The terminator AddGene builds for the stop codon of a gene.
GeneStopCodon(gene) ==
  [name |-> "stop_codon", start |-> gene.stop - 1, stop |-> gene.stop,
   gene |-> gene.name, reading_frame |-> gene.start % 3,
   efficiency |-> [n \in {"ribosome"} |-> 100]]

\* Values an out-of-bounds read of weights_ may deliver.
StrayWeights == {0, 3}

\* The weights of the Polymer constructor (all 1) and a position-dependent
\* vector with one zero entry, as Transcript's constructor may install.
WeightVectors(len) ==
  { [i \in 0 .. len - 1 |-> 1],
    [i \in 0 .. len - 1 |-> IF i = len - 2 THEN 0 ELSE 1 + (i % 2)] }

\* The masks a polymer may start with: the empty mask of the constructor and
\* masks from coordinate 4 on, with and without an interaction.
Masks(stop) ==
  { [start |-> stop + 1, stop |-> stop, interactions |-> {}],
    [start |-> 4, stop |-> stop, interactions |-> {}],
    [start |-> 4, stop |-> stop, interactions |-> {"rnapol"}] }

-----------------------------------------------------------------------------
(* Maps with a growing key set (std::map). *)

EmptyMap == [x \in {} |-> 0]

Put(m, k, v) == [x \in DOMAIN m \cup {k} |-> IF x = k THEN v ELSE m[x]]

Count(m, k) == IF k \in DOMAIN m THEN m[k] ELSE 0

-----------------------------------------------------------------------------
(* Sequences. *)

InsertAt(s, k, e) == SubSeq(s, 1, k - 1) \o << e >> \o SubSeq(s, k, Len(s))

RemoveAt(s, k) == SubSeq(s, 1, k - 1) \o SubSeq(s, k + 1, Len(s))

RECURSIVE SumSeq(_)
SumSeq(s) == IF s = << >> THEN 0 ELSE Head(s) + SumSeq(Tail(s))

\* Every order in which the elements of S may be visited.
Orders(S) ==
  { f \in [1 .. Cardinality(S) -> S] :
      \A i, j \in 1 .. Cardinality(S) : i # j => f[i] # f[j] }

-----------------------------------------------------------------------------
(* Interval tree queries. *)

\* Ids of the intervals of tree (ids into sites) that overlap [q_start, q_stop].
findOverlapping(sites, tree, q_start, q_stop) ==
  { s \in tree : sites[s].start <= q_stop /\ sites[s].stop >= q_start }

\* IntervalTree::findContained: the sites of the tree that lie wholly inside
\* [q_start, q_stop].
findContained(sites, tree, q_start, q_stop) ==
  { s \in tree : q_start <= sites[s].start /\ sites[s].stop <= q_stop }

-----------------------------------------------------------------------------
(* Errors. *)

Recoverable == {"ok", "NoFreePromoter", "NoInteraction", "MaskOverlap",
                "NoPropensity"}

Fatal == err \notin Recoverable

-----------------------------------------------------------------------------
(* Sites (Promoter, Terminator, Mask) and Polymerase. *)

\* Site::CheckInteraction: the site's interaction map has the name.
CheckInteraction(site, name) == name \in site.interactions

\* Terminator::CheckInteraction: the efficiency map has the name and the
\* reading frames agree.
CheckTermInteraction(term, name, reading_frame) ==
  name \in DOMAIN term.efficiency /\ reading_frame = term.reading_frame

\* A draw u of Random::random() in [0, 1) terminates when u <= efficiency:
\* u = 0 always does, and some u fails unless the efficiency is 1.
DrawOutcomes(term, name) ==
  {TRUE} \cup (IF term.efficiency[name] < 100 THEN {FALSE} ELSE {})

\* A polymerase as its constructor leaves it; site is the promoter it was
\* bound at (0: none yet).
NewPolymerase(kind) ==
  [name |-> kind.name, footprint |-> kind.footprint, speed |-> kind.speed,
   start |-> 0, stop |-> kind.footprint - 1, reading_frame |-> -1, site |-> 0]

\* No polymerase object.
NoPol == [name |-> "none"]

\* Polymerase::Move and Polymerase::MoveBack.
PolMove(pol) == [pol EXCEPT !.start = @ + 1, !.stop = @ + 1]

PolMoveBack(pol) == [pol EXCEPT !.start = @ - 1, !.stop = @ - 1]

\* Mask::Recede.
Recede(mask) == [mask EXCEPT !.start = @ + 1]

-----------------------------------------------------------------------------
(* Polymer::CoverBindingSite and Polymer::UncoverBindingSite on the pair     *)
(* (uncovered_, species_log_); ok is FALSE when the negative count throws.   *)

CoverBindingSite(unc, log, species_name) ==
  LET unc1 == IF species_name \notin DOMAIN unc
              THEN Put(unc, species_name, 0)
              ELSE Put(unc, species_name, unc[species_name] - 1)
  IN IF unc1[species_name] < 0
     THEN [unc |-> unc1, log |-> log, ok |-> FALSE]
     ELSE [unc |-> unc1,
           log |-> IF species_name \notin DOMAIN log
                   THEN Put(log, species_name, -1)
                   ELSE Put(log, species_name, log[species_name] - 1),
           ok |-> TRUE]

UncoverBindingSite(unc, log, species_name) ==
  [unc |-> IF species_name \notin DOMAIN unc
           THEN Put(unc, species_name, 1)
           ELSE Put(unc, species_name, unc[species_name] + 1),
   log |-> IF species_name \notin DOMAIN log
           THEN Put(log, species_name, 1)
           ELSE Put(log, species_name, log[species_name] + 1),
   ok |-> TRUE]

-----------------------------------------------------------------------------
(* Polymer::Initialize. *)

\* First loop: the promoters under the mask, visited in the order ord from
\* position k on.  st = [unc, log, cov, sav, ok].
RECURSIVE CoverMasked(_, _, _)
CoverMasked(ord, k, st) ==
  IF k > Len(ord) \/ ~st.ok THEN st
  ELSE LET s == ord[k]
           c == CoverBindingSite(st.unc, st.log, binding_intervals_[s].name)
       IN IF ~c.ok
          THEN [st EXCEPT !.unc = c.unc, !.ok = FALSE]
          ELSE CoverMasked(ord, k + 1,
                 [unc |-> c.unc, log |-> c.log,
                  cov |-> [st.cov EXCEPT ![s] = TRUE],
                  sav |-> [st.sav EXCEPT ![s] = TRUE], ok |-> TRUE])

\* Second loop: the promoters that overlap [start_, mask_stop].
RECURSIVE UncoverUnmasked(_, _, _)
UncoverUnmasked(ord, k, st) ==
  IF k > Len(ord) THEN st
  ELSE LET s == ord[k]
           u == UncoverBindingSite(st.unc, st.log, binding_intervals_[s].name)
       IN UncoverUnmasked(ord, k + 1,
            [unc |-> u.unc, log |-> u.log,
             cov |-> [st.cov EXCEPT ![s] = FALSE],
             sav |-> [st.sav EXCEPT ![s] = FALSE], ok |-> TRUE])

Initialize ==
  /\ ~Fatal
  /\ ~initialized
  /\ LET tree == DOMAIN binding_intervals_
         masked == findOverlapping(binding_intervals_, tree,
                                   mask_.start, mask_.stop)
         unmasked == findOverlapping(binding_intervals_, tree,
                                     start_, mask_.stop)
         st0 == [unc |-> uncovered_, log |-> species_log_,
                 cov |-> covered, sav |-> saved, ok |-> TRUE]
     IN \E ord1 \in Orders(masked), ord2 \in Orders(unmasked) :
          LET st1 == CoverMasked(ord1, 1, st0)
              st2 == IF st1.ok THEN UncoverUnmasked(ord2, 1, st1) ELSE st1
          IN /\ binding_sites_' = tree
             /\ release_sites_' = DOMAIN release_intervals_
             /\ uncovered_' = st2.unc
             /\ species_log_' = st2.log
             /\ covered' = st2.cov
             /\ saved' = st2.sav
             /\ err' = IF st2.ok THEN "ok" ELSE "NegativeCount"
  /\ initialized' = TRUE
  /\ last_pol' = NoPol
  /\ UNCHANGED << config, mask_, readthrough, pols, polymerases_,
                  prop_list_, prop_sum_, terminations >>

-----------------------------------------------------------------------------
(* Polymer::Insert. *)

\* std::upper_bound over occ with the comparison a->start() < b->start():
\* the 0-based offset the binary search ends at, from first with len left.
RECURSIVE UpperBound(_, _, _, _, _)
UpperBound(occ, ps, val_start, first, len) ==
  IF len <= 0 THEN first
  ELSE LET half == len \div 2
           middle == first + half
       IN IF val_start < ps[occ[middle + 1]].start
          THEN UpperBound(occ, ps, val_start, first, half)
          ELSE UpperBound(occ, ps, val_start, middle + 1, len - half - 1)

\* The values weights_[index] may deliver: the entry, or for an index outside
\* the vector (operator[] does not check) whatever lies there.
ReadWeight(index) ==
  IF index \in DOMAIN weights_ THEN {weights_[index]} ELSE StrayWeights

\* Insert of the polymerase p (an identity of ps): the sequences and the sum
\* it may leave, and whether the size check passes.
Insert(occ, props, sum, ps, p) ==
  LET it == UpperBound(occ, ps, ps[p].start, 0, Len(occ))
      occ1 == InsertAt(occ, it + 1, p)
  IN { LET props1 == InsertAt(props, it + 1, weight * ps[p].speed)
       IN [polymerases_ |-> occ1, prop_list_ |-> props1,
           prop_sum_ |-> sum + weight * ps[p].speed,
           ok |-> Len(props1) = Len(occ1)]
       : weight \in ReadWeight(ps[p].stop - start_ - 1) }

-----------------------------------------------------------------------------
(* Polymer::Bind.  The tracker of species counts (SpeciesTracker) that Bind  *)
(* reports to is a separate object and is not part of this model.            *)

\* Promoters Bind may choose for promoter_name.
PromoterChoices(promoter_name) ==
  { s \in findOverlapping(binding_intervals_, binding_sites_,
                          start_, mask_.start) :
      /\ binding_intervals_[s].name = promoter_name
      /\ ~covered[s] }

\* The polymerase with the coordinates Bind gives it at the promoter elem.
SnapToPromoter(pol, elem) ==
  [pol EXCEPT !.start = binding_intervals_[elem].start,
              !.stop = binding_intervals_[elem].start + pol.footprint - 1]

BindFail(pol, e) ==
  /\ last_pol' = pol
  /\ err' = e
  /\ UNCHANGED << mask_, binding_sites_, release_sites_, covered, saved,
                  readthrough, pols, polymerases_, prop_list_, prop_sum_,
                  uncovered_, species_log_, terminations >>

Bind(kind, promoter_name) ==
  /\ ~Fatal
  /\ UNCHANGED << config, initialized >>
  /\ LET pol == NewPolymerase(kind)
         choices == PromoterChoices(promoter_name)
     IN IF choices = {}
        THEN BindFail(pol, "NoFreePromoter")
        ELSE \E elem \in choices :
          IF ~CheckInteraction(binding_intervals_[elem], pol.name)
          THEN BindFail(pol, "NoInteraction")
          ELSE LET snapped == [SnapToPromoter(pol, elem) EXCEPT !.site = elem]
               IN IF snapped.stop >= mask_.start
                  THEN BindFail(snapped, "MaskOverlap")
                  ELSE
                    LET c == CoverBindingSite(uncovered_, species_log_,
                                              binding_intervals_[elem].name)
                        p == Len(pols) + 1
                        ps == Append(pols, snapped)
                    IN /\ covered' = [covered EXCEPT ![elem] = TRUE]
                       /\ saved' = [saved EXCEPT ![elem] = TRUE]
                       /\ uncovered_' = c.unc
                       /\ species_log_' = c.log
                       /\ UNCHANGED << mask_, binding_sites_, release_sites_,
                                       readthrough, terminations >>
                       /\ IF ~c.ok
                          THEN /\ err' = "NegativeCount"
                               /\ last_pol' = snapped
                               /\ UNCHANGED << pols, polymerases_, prop_list_,
                                               prop_sum_ >>
                          ELSE /\ Len(pols) < MaxPols  \* bound of the model
                               /\ \E ins \in Insert(polymerases_, prop_list_,
                                                    prop_sum_, ps, p) :
                                    /\ pols' = ps
                                    /\ last_pol' = NoPol
                                    /\ polymerases_' = ins.polymerases_
                                    /\ prop_list_' = ins.prop_list_
                                    /\ prop_sum_' = ins.prop_sum_
                                    /\ err' = IF ins.ok THEN "ok"
                                              ELSE "PropListSize"

-----------------------------------------------------------------------------
(* The checks of Polymer::Move. *)

\* A collision check that sees no polymerase ahead.
CheckPolCollisionsBlind(occ, ps, i) == "no"

\* Polymer::CheckPolCollisions for the polymerase at position i (1-based):
\* "no", "collision", or "throw" for an overlap of more than one position.
CheckPolCollisions(occ, ps, i) ==
  IF i + 1 > Len(occ) THEN "no"
  ELSE LET this == ps[occ[i]]
           next == ps[occ[i + 1]]
       IN IF this.stop >= next.start /\ next.stop >= this.start
          THEN (IF this.stop > next.start THEN "throw" ELSE "collision")
          ELSE "no"

\* Polymer::CheckAhead: the cover bits after it.  Cover() is all it does.
CheckAhead(cov, old_stop, new_stop) ==
  [s \in DOMAIN cov |->
     IF /\ s \in findOverlapping(binding_intervals_, binding_sites_,
                                 old_stop, new_stop)
        /\ binding_intervals_[s].start < new_stop
     THEN TRUE ELSE cov[s]]

\* Polymer::CheckBehind: the cover bits after it.  Uncover() is all it does.
CheckBehind(cov, old_start, new_start) ==
  [s \in DOMAIN cov |->
     IF /\ s \in findOverlapping(binding_intervals_, binding_sites_,
                                 old_start, new_start)
        /\ binding_intervals_[s].stop < new_start
     THEN FALSE ELSE cov[s]]

\* Polymer::ShiftMask: the mask and the cover bits after it.
ShiftMask(mask, cov) ==
  IF mask.start <= mask.stop
  THEN [mask |-> Recede(mask),
        covered |-> CheckBehind(cov, mask.start, Recede(mask).start)]
  ELSE [mask |-> mask, covered |-> cov]

\* Polymer::CheckMaskCollisions for the moved polymerase pol: result is "no",
\* "collision", or "throw" for an overlap of more than one position.
CheckMaskCollisions(pol, mask, cov) ==
  IF mask.start <= stop_ /\ pol.stop >= mask.start
  THEN IF pol.stop - mask.start > 0
       THEN [result |-> "throw", mask |-> mask, covered |-> cov]
       ELSE IF CheckInteraction(mask, pol.name)
            THEN [result |-> "no", mask |-> ShiftMask(mask, cov).mask,
                  covered |-> ShiftMask(mask, cov).covered]
            ELSE [result |-> "collision", mask |-> mask, covered |-> cov]
  ELSE [result |-> "no", mask |-> mask, covered |-> cov]

\* The loop of Polymer::CheckTermination over the terminators ord[k..] for the
\* moved polymerase pol: every way it may end.  term is the terminator that
\* terminates pol (0: none), rt the readthrough flags it leaves.
RECURSIVE TerminationLoop(_, _, _, _)
TerminationLoop(ord, k, rt, pol) ==
  IF k > Len(ord) THEN {[terminating |-> FALSE, term |-> 0, rt |-> rt]}
  ELSE LET t == ord[k]
           site == release_intervals_[t]
       IN IF CheckTermInteraction(site, pol.name, pol.reading_frame) /\ ~rt[t]
          THEN UNION { IF drawn
                       THEN {[terminating |-> TRUE, term |-> t, rt |-> rt]}
                       ELSE TerminationLoop(ord, k + 1,
                                            [rt EXCEPT ![t] = TRUE], pol)
                       : drawn \in DrawOutcomes(site, pol.name) }
          ELSE TerminationLoop(ord, k + 1, rt, pol)

CheckTermination(pol, rt) ==
  UNION { TerminationLoop(ord, 1, rt, pol) :
          ord \in Orders(findOverlapping(release_intervals_, release_sites_,
                                         pol.start, pol.stop)) }

\* Number of move_signal_ emissions of CheckTermination before Terminate.
TerminationEmits(pol, term) ==
  LET dist == release_intervals_[term].stop - pol.stop + 1
  IN IF dist > 0 THEN dist ELSE 0

\* Position of p in occ (1-based); Len(occ) + 1 when absent (std::find).
Find(occ, p) ==
  IF \E k \in 1 .. Len(occ) : occ[k] = p
  THEN CHOOSE k \in 1 .. Len(occ) :
         occ[k] = p /\ \A j \in 1 .. k - 1 : occ[j] # p
  ELSE Len(occ) + 1

\* Terminate that erases the polymerase and leaves its propensity entry.
TerminateKeepsEntry(occ, props, sum, p) ==
  LET index == Find(occ, p)
      occ1 == RemoveAt(occ, index)
  IN [polymerases_ |-> occ1, prop_list_ |-> props,
      prop_sum_ |-> sum - props[index],
      ok |-> Len(props) = Len(occ1)]

\* Terminate that erases the polymerase and the first propensity entry.
TerminateFirstEntry(occ, props, sum, p) ==
  LET index == Find(occ, p)
      props1 == RemoveAt(props, 1)
      occ1 == RemoveAt(occ, index)
  IN [polymerases_ |-> occ1, prop_list_ |-> props1,
      prop_sum_ |-> sum - props[1],
      ok |-> Len(props1) = Len(occ1)]

\* Polymer::Terminate: the sequences and the sum after it.
Terminate(occ, props, sum, p) ==
  LET index == Find(occ, p)
      props1 == RemoveAt(props, index)
      occ1 == RemoveAt(occ, index)
  IN [polymerases_ |-> occ1, prop_list_ |-> props1,
      prop_sum_ |-> sum - props[index],
      ok |-> Len(props1) = Len(occ1)]

-----------------------------------------------------------------------------
(* Polymer::Move and Polymer::Execute. *)

\* A propensity update that stores the new entry and leaves the sum.
UpdatePropensityStaleSum(props, sum, i, new_speed) ==
  [prop_list_ |-> [props EXCEPT ![i] = new_speed], prop_sum_ |-> sum]

\* The propensity update that ends Move: the list and the sum after it.
UpdatePropensity(props, sum, i, new_speed) ==
  LET diff == new_speed - props[i]
  IN [prop_list_ |-> [props EXCEPT ![i] = new_speed], prop_sum_ |-> sum + diff]

\* Every way Move may end for the polymerase at position i (1-based): the
\* objects as it leaves them and the error it throws ("ok": it returns).
Move(i) ==
  LET cur == [pols |-> pols, polymerases_ |-> polymerases_,
              prop_list_ |-> prop_list_, prop_sum_ |-> prop_sum_,
              mask_ |-> mask_, covered |-> covered,
              readthrough |-> readthrough, terminations |-> terminations,
              err |-> "ok"]
  IN IF i > Len(prop_list_) THEN {[cur EXCEPT !.err = "PropListIndex"]}
     ELSE
       LET p == polymerases_[i]
           old_start == pols[p].start
           old_stop == pols[p].stop
           pol == PolMove(pols[p])
           ps == [pols EXCEPT ![p] = pol]
           pol_collision == CheckPolCollisions(polymerases_, ps, i)
           m == CheckMaskCollisions(pol, mask_, covered)
       IN IF pol_collision = "throw"
          THEN {[cur EXCEPT !.pols = ps, !.err = "InvalidOverlap"]}
          ELSE IF pol_collision = "collision"
          THEN {[cur EXCEPT !.pols = [ps EXCEPT ![p] = PolMoveBack(pol)]]}
          ELSE IF m.result = "throw"
          THEN {[cur EXCEPT !.pols = ps, !.err = "InvalidMaskOverlap"]}
          ELSE IF m.result = "collision"
          THEN {[cur EXCEPT !.pols = [ps EXCEPT ![p] = PolMoveBack(pol)]]}
          ELSE
            { IF t.terminating
              THEN LET gone == Terminate(polymerases_, prop_list_, prop_sum_, p)
                   IN [pols |-> ps,
                       polymerases_ |-> gone.polymerases_,
                       prop_list_ |-> gone.prop_list_,
                       prop_sum_ |-> gone.prop_sum_,
                       mask_ |-> m.mask, covered |-> m.covered,
                       readthrough |-> t.rt,
                       terminations |->
                         Append(terminations,
                                [pol |-> p, name |-> pol.name,
                                 gene |-> release_intervals_[t.term].gene,
                                 emits |-> TerminationEmits(pol, t.term)]),
                       err |-> IF gone.ok THEN "ok" ELSE "PropListSize"]
              ELSE LET cov == CheckAhead(
                                CheckBehind(m.covered, old_start, pol.start),
                                old_stop, pol.stop)
                       index == pol.stop - start_ - 1
                   IN IF index \notin DOMAIN weights_
                      THEN [cur EXCEPT !.pols = ps, !.mask_ = m.mask,
                                       !.covered = cov, !.readthrough = t.rt,
                                       !.err = "MissingWeight"]
                      ELSE LET new_speed == weights_[index] * pol.speed
                               upd == UpdatePropensity(prop_list_, prop_sum_,
                                                       i, new_speed)
                           IN [cur EXCEPT !.pols = ps, !.mask_ = m.mask,
                                          !.covered = cov,
                                          !.readthrough = t.rt,
                                          !.prop_sum_ = upd.prop_sum_,
                                          !.prop_list_ = upd.prop_list_]
              : t \in CheckTermination(pol, readthrough) }

\* Indices Random::WeightedChoiceIndex may return: each with a positive weight.
Choose == { i \in 1 .. Len(prop_list_) : prop_list_[i] > 0 }

\* Polymer::ShiftMask as the slot of a polymerase's move_signal_ runs it on
\* the transcript t.  Nobody has called Initialize on a transcript that the
\* genome holds only through this slot, so its binding_sites_ tree is empty
\* and CheckBehind finds nothing to uncover.
TranscriptShiftMask(t) ==
  IF t.mask_.start <= t.mask_.stop
  THEN [t EXCEPT !.mask_ = Recede(@)]
  ELSE t

RECURSIVE TranscriptShiftMaskTimes(_, _)
TranscriptShiftMaskTimes(t, n) ==
  IF n = 0 THEN t
  ELSE TranscriptShiftMaskTimes(TranscriptShiftMask(t), n - 1)

\* n emissions of the move_signal_ of polymerase p: every transcript whose
\* ShiftMask is a slot of that signal runs it n times.
EmitMoveSignal(ts, p, n) ==
  [k \in DOMAIN ts |->
     IF ts[k].pol = p THEN TranscriptShiftMaskTimes(ts[k], n) ELSE ts[k]]

\* Number of times Move(i) with the outcome out has emitted the move_signal_
\* of the chosen polymerase: once in pol->Move(), and dist times more in
\* CheckTermination when the polymerase terminates.
MoveSignalEmits(out) ==
  IF out.err = "PropListIndex" THEN 0
  ELSE 1 + (IF Len(out.terminations) > Len(terminations)
            THEN out.terminations[Len(out.terminations)].emits
            ELSE 0)

\* A sum test that never fires.
ZeroPropensityMissed(sum) == sum < 0

\* The test Execute makes before it chooses a polymerase.
ZeroPropensity(sum) == sum = 0

Execute ==
  /\ ~Fatal
  /\ last_pol' = NoPol
  /\ UNCHANGED << config, initialized, binding_sites_, release_sites_, saved,
                  uncovered_, templates, signal >>
  /\ IF ZeroPropensity(prop_sum_)
     THEN /\ err' = "NoPropensity"
          /\ UNCHANGED << mask_, covered, readthrough, pols, polymerases_,
                          prop_list_, prop_sum_, species_log_, terminations,
                          transcripts >>
     ELSE IF Len(prop_list_) = 0
     THEN /\ err' = "NoActivePolymerases"
          /\ UNCHANGED << mask_, covered, readthrough, pols, polymerases_,
                          prop_list_, prop_sum_, species_log_, terminations,
                          transcripts >>
     ELSE \E pol_index \in Choose : \E out \in Move(pol_index) :
          /\ transcripts' = EmitMoveSignal(transcripts,
                                           polymerases_[pol_index],
                                           MoveSignalEmits(out))
          /\ species_log_' = EmptyMap
          /\ pols' = out.pols
          /\ polymerases_' = out.polymerases_
          /\ prop_list_' = out.prop_list_
          /\ prop_sum_' = out.prop_sum_
          /\ mask_' = out.mask_
          /\ covered' = out.covered
          /\ readthrough' = out.readthrough
          /\ terminations' = out.terminations
          /\ err' = out.err

-----------------------------------------------------------------------------
(* Signal (src/src/event_signal.hpp): slots in a std::map keyed by the id    *)
(* that connect gave them.                                                   *)

\* Callables a caller may connect.
SlotPool == {"f", "g"}

\* Signal::Signal.
SignalConstructed ==
  /\ slots_ = << >>
  /\ current_id_ = 0
  /\ handles = << >>
  /\ invoked = << >>

\* A connect that inserts under the id before the increment.
ConnectPostIncrement(slots, id, slot) ==
  [slots_ |-> IF id \in DOMAIN slots THEN slots ELSE Put(slots, id, slot),
   current_id_ |-> id + 1, handle |-> id + 1]

\* Signal::connect: std::map::insert under ++current_id_ (insert keeps an
\* entry that already has the key); the new id is returned.
Connect(slots, id, slot) ==
  LET new_id == id + 1
  IN [slots_ |-> IF new_id \in DOMAIN slots THEN slots
                 ELSE Put(slots, new_id, slot),
      current_id_ |-> new_id, handle |-> new_id]

\* Signal::emit: the slots in the order of the map, ascending by id.
RECURSIVE Emit(_, _)
Emit(slots, done) ==
  LET rest == DOMAIN slots \ done
  IN IF rest = {} THEN << >>
     ELSE LET k == CHOOSE x \in rest : \A y \in rest : x <= y
          IN << slots[k] >> \o Emit(slots, done \cup {k})

\* handles without the entries of the id.
Forget(hs, id) ==
  LET Keep(h) == h.id # id IN SelectSeq(hs, Keep)

SignalConnect(slot) ==
  /\ current_id_ < MaxConnects
  /\ LET c == Connect(slots_, current_id_, slot)
     IN /\ slots_' = c.slots_
        /\ current_id_' = c.current_id_
        /\ handles' = Append(handles, [id |-> c.handle, slot |-> slot])
  /\ UNCHANGED invoked

SignalDisconnect(id) ==
  /\ slots_' = [k \in DOMAIN slots_ \ {id} |-> slots_[k]]
  /\ handles' = Forget(handles, id)
  /\ UNCHANGED << current_id_, invoked >>

SignalDisconnectAll ==
  /\ slots_' = << >>
  /\ handles' = << >>
  /\ UNCHANGED << current_id_, invoked >>

SignalEmit ==
  /\ invoked' = Emit(slots_, {})
  /\ UNCHANGED << slots_, current_id_, handles >>

-----------------------------------------------------------------------------
(* Genome: a polymer that spawns a transcript for every polymerase bound.    *)

\* Genome::Initialize.
GenomeInitialize ==
  /\ Initialize
  /\ transcript_rbs_' = DOMAIN transcript_rbs_intervals_
  /\ transcript_stop_sites_' = DOMAIN transcript_stop_site_intervals_
  /\ UNCHANGED << transcript_rbs_intervals_, transcript_stop_site_intervals_,
                  transcript_weights_, transcripts, signal >>

\* Transcript::Transcript: a polymer with the given bounds, sites, mask and
\* weights; pol is the polymerase whose move_signal_ holds this transcript's
\* ShiftMask as a slot, 0 while there is none.
Transcript(name, start, stop, rbs_intervals, stop_site_intervals, mask, weights) ==
  [name |-> name, start_ |-> start, stop_ |-> stop, mask_ |-> mask,
   weights_ |-> weights, binding_intervals_ |-> rbs_intervals,
   release_intervals_ |-> stop_site_intervals, pol |-> 0]

\* BuildTranscript that gives the transcript the bounds of its mask.
BuildTranscriptFromMask(start, stop) ==
  LET prom_results == findContained(transcript_rbs_intervals_,
                                    transcript_rbs_, start, stop)
      term_results == findContained(transcript_stop_site_intervals_,
                                    transcript_stop_sites_, start, stop)
  IN Transcript("rna", start, stop,
                [s \in prom_results |-> transcript_rbs_intervals_[s]],
                [s \in term_results |-> transcript_stop_site_intervals_[s]],
                [start |-> start, stop |-> stop, interactions |-> {}],
                transcript_weights_)

\* Genome::BuildTranscript(start, stop): clones of the template sites inside
\* [start, stop], a mask over [start, stop], and the genome's own start_ and
\* stop_ as the transcript's bounds.
BuildTranscript(start, stop) ==
  LET prom_results == findContained(transcript_rbs_intervals_,
                                    transcript_rbs_, start, stop)
      term_results == findContained(transcript_stop_site_intervals_,
                                    transcript_stop_sites_, start, stop)
  IN Transcript("rna", start_, stop_,
                [s \in prom_results |-> transcript_rbs_intervals_[s]],
                [s \in term_results |-> transcript_stop_site_intervals_[s]],
                [start |-> start, stop |-> stop, interactions |-> {}],
                transcript_weights_)

\* An emission of transcript_signal_ that reaches its subscriber twice.
EmitTranscriptTwice(ts, t) == Append(Append(ts, t), t)

\* transcript_signal_.Emit(transcript).
EmitTranscript(ts, t) == Append(ts, t)

\* Genome::Bind: nothing follows a Polymer::Bind that throws.
GenomeBind(kind, promoter_name) ==
  /\ Bind(kind, promoter_name)
  /\ UNCHANGED << templates, signal >>
  /\ IF err' = "ok"
     THEN LET p == Len(pols')
              transcript == BuildTranscript(pols'[p].stop, stop_)
          IN transcripts' =
               EmitTranscript(transcripts, [transcript EXCEPT !.pol = p])
     ELSE UNCHANGED transcripts

-----------------------------------------------------------------------------
(* The polymer after construction (Polymer::Polymer, Transcript::Transcript, *)
(* Genome's AddMask, AddPromoter and AddTerminator), before Initialize.      *)

Constructed ==
  /\ start_ = 1
  /\ stop_ = PolymerLen
  /\ weights_ \in WeightVectors(stop_ - start_ + 1)
  /\ mask_ \in Masks(stop_)
  /\ \E S \in SUBSET DOMAIN PromoterPool :
       /\ Cardinality(S) <= MaxPromoters
       /\ binding_intervals_ = [s \in S |-> PromoterPool[s]]
  /\ \E S \in SUBSET DOMAIN TerminatorPool :
       /\ Cardinality(S) <= 1
       /\ release_intervals_ = [s \in S |-> TerminatorPool[s]]
  /\ binding_sites_ = {}
  /\ release_sites_ = {}
  /\ covered = [s \in DOMAIN binding_intervals_ |-> FALSE]
  /\ saved = [s \in DOMAIN binding_intervals_ |-> FALSE]
  /\ readthrough = [s \in DOMAIN release_intervals_ |-> FALSE]
  /\ pols = << >>
  /\ last_pol = NoPol
  /\ polymerases_ = << >>
  /\ prop_list_ = << >>
  /\ prop_sum_ = 0
  /\ uncovered_ = EmptyMap
  /\ species_log_ = EmptyMap
  /\ terminations = << >>
  /\ initialized = FALSE
  /\ err = "ok"

\* A polymer that is no genome: it has no genes and spawns no transcript.
Init ==
  /\ Constructed
  /\ transcript_rbs_intervals_ = << >>
  /\ transcript_stop_site_intervals_ = << >>
  /\ transcript_weights_ = << >>
  /\ transcript_rbs_ = {}
  /\ transcript_stop_sites_ = {}
  /\ transcripts = << >>
  /\ SignalConstructed

Next ==
  \/ Initialize /\ UNCHANGED << templates, transcripts, signal >>
  \/ \E kind \in PolKinds, promoter_name \in PromoterNames :
       /\ Bind(kind, promoter_name)
       /\ UNCHANGED << templates, transcripts, signal >>
  \/ Execute

Spec == Init /\ [][Next]_vars

\* The genome after Genome::Genome, AddMask, AddPromoter, AddTerminator and
\* AddGene, before Initialize: the weights of the Polymer constructor, and
\* either no gene or the genes of GenePool.
GenomeInit ==
  /\ Constructed
  /\ weights_ = [i \in 0 .. stop_ - start_ |-> 1]
  /\ \E G \in {{}, DOMAIN GenePool} :
       /\ transcript_rbs_intervals_ = [g \in G |-> GeneRbs(GenePool[g])]
       /\ transcript_stop_site_intervals_ =
            [g \in G |-> GeneStopCodon(GenePool[g])]
  /\ transcript_weights_ = [i \in 0 .. stop_ - start_ |-> 1]
  /\ transcript_rbs_ = {}
  /\ transcript_stop_sites_ = {}
  /\ transcripts = << >>
  /\ SignalConstructed

GenomeNext ==
  \/ GenomeInitialize
  \/ \E kind \in PolKinds, promoter_name \in PromoterNames :
       GenomeBind(kind, promoter_name)
  \/ Execute

GenomeSpec == GenomeInit /\ [][GenomeNext]_vars

\* The members of the polymer and of the genome.
polymer == << start_, stop_, weights_, mask_, binding_intervals_,
              release_intervals_, binding_sites_, release_sites_, covered,
              saved, readthrough, pols, last_pol, polymerases_, prop_list_,
              prop_sum_, uncovered_, species_log_, terminations, initialized,
              err, templates, transcripts >>

\* A Signal on its own, beside a polymer without sites that nobody calls.
SignalInit ==
  /\ Init
  /\ weights_ = [i \in 0 .. stop_ - start_ |-> 1]
  /\ mask_.start = stop_ + 1
  /\ binding_intervals_ = << >>
  /\ release_intervals_ = << >>

SignalNext ==
  \/ \E slot \in SlotPool : SignalConnect(slot) /\ UNCHANGED polymer
  \/ \E id \in 1 .. MaxConnects : SignalDisconnect(id) /\ UNCHANGED polymer
  \/ SignalDisconnectAll /\ UNCHANGED polymer
  \/ SignalEmit /\ UNCHANGED polymer

SignalSpec == SignalInit /\ [][SignalNext]_vars

-----------------------------------------------------------------------------
(* Properties. *)

\* The polymerase at position i of polymerases_.
Occupant(i) == pols[polymerases_[i]]

Positions == 1 .. Len(polymerases_)

\* The spans [a1, a2] and [b1, b2] share a coordinate.
SpansMeet(a1, a2, b1, b2) == a1 <= b2 /\ b1 <= a2

\* Some occupant has advanced since it was bound.
SomeOccupantMoved ==
  \E i \in Positions :
    Occupant(i).start > binding_intervals_[Occupant(i).site].start

\* The errors of Bind that its caller recovers from.
BindErrors == {"NoFreePromoter", "NoInteraction", "MaskOverlap"}

\* C1: in every reachable state, whatever calls of Initialize, Bind and
\* Execute led to it (failed binds, rolled-back moves and terminations
\* included), polymerases_ and prop_list_ have the same length.
C1_SameLength == Len(polymerases_) = Len(prop_list_)

\* C1 witness: a polymerase has terminated while another one stays bound.
C1_Witness ==
  /\ Len(terminations) >= 1
  /\ Len(polymerases_) >= 1
  /\ Len(polymerases_) = Len(prop_list_)

\* C2: in every reachable state prop_sum_ is the sum of the entries of
\* prop_list_ (integer weights and speeds).
C2_SumOfPropensities == prop_sum_ = SumSeq(prop_list_)

\* C2 witness: two polymerases are bound, one of them has advanced, and their
\* propensities differ.
C2_Witness ==
  /\ Len(prop_list_) >= 2
  /\ SomeOccupantMoved
  /\ \E i, j \in Positions : prop_list_[i] # prop_list_[j]
  /\ prop_sum_ = SumSeq(prop_list_)

\* C3: after every Bind or Execute that returns, each entry of prop_list_ is
\* the weight at its polymerase's position, weights_[stop - start_ - 1],
\* times that polymerase's speed.
C3_PropensityOfPosition ==
  err = "ok" =>
    \A i \in Positions :
      LET index == Occupant(i).stop - start_ - 1
      IN /\ index \in DOMAIN weights_
         /\ prop_list_[i] = weights_[index] * Occupant(i).speed

\* C4: after successful binds and completed executes the occupants are in
\* strictly ascending order of start and no two of their spans share a
\* coordinate.
C4_SortedAndDisjoint ==
  err = "ok" =>
    /\ \A i \in 1 .. Len(polymerases_) - 1 :
         Occupant(i).start < Occupant(i + 1).start
    /\ \A i, j \in Positions :
         i # j => ~SpansMeet(Occupant(i).start, Occupant(i).stop,
                             Occupant(j).start, Occupant(j).stop)

\* C5: after every Execute that returns and every successful Bind, no
\* occupant has stop >= mask_.start, whatever the mask (the empty mask
\* [stop_ + 1, stop_] included).
C5_OccupantsBeforeMask ==
  err = "ok" => \A i \in Positions : Occupant(i).stop < mask_.start

\* Number of promoters named n whose covered bit is false.
UncoveredSites(n) ==
  Cardinality({ s \in DOMAIN binding_intervals_ :
                  binding_intervals_[s].name = n /\ ~covered[s] })

\* C6: in every state reached after Initialize, uncovered_[n] is the number
\* of promoters named n whose covered bit is false, for every name n.
C6_CacheCountsUncovered ==
  (initialized /\ ~Fatal) =>
    \A n \in PromoterNames : Count(uncovered_, n) = UncoveredSites(n)

\* C7: uncovered_[n] >= 0 for every name n in every reachable state, and the
\* negative-count error is never raised.
C7_CountsNeverNegative ==
  /\ \A n \in DOMAIN uncovered_ : uncovered_[n] >= 0
  /\ err # "NegativeCount"

\* C8: in every state reached after Initialize, a promoter's covered bit is
\* false exactly when the promoter lies before mask_.start and its span
\* meets no occupant's span.
C8_CoveredIffOccluded ==
  (initialized /\ ~Fatal) =>
    \A s \in DOMAIN binding_intervals_ :
      (~covered[s]) <=>
        /\ binding_intervals_[s].stop < mask_.start
        /\ \A i \in Positions :
             ~SpansMeet(binding_intervals_[s].start, binding_intervals_[s].stop,
                        Occupant(i).start, Occupant(i).stop)

\* C9: a Bind that fails with NoFreePromoter, NoInteraction or MaskOverlap
\* has changed nothing: not the polymer's occupants, propensities, sum, cache,
\* log, cover bits or mask, and not the polymerase's own start and stop.
C9_FailedBindChangesNothing ==
  [][\A kind \in PolKinds, promoter_name \in PromoterNames :
       (Bind(kind, promoter_name) /\ err' \in BindErrors) =>
         /\ UNCHANGED << pols, polymerases_, prop_list_, prop_sum_, uncovered_,
                         species_log_, covered, saved, mask_ >>
         /\ last_pol'.start = NewPolymerase(kind).start
         /\ last_pol'.stop = NewPolymerase(kind).stop]_vars

\* The only promoter named n holds the polymerase that was bound at it: that
\* polymerase's start has not passed the promoter's stop.
SinglePromoterHeld(n) ==
  \E s \in DOMAIN binding_intervals_ :
    /\ binding_intervals_[s].name = n
    /\ \A s2 \in DOMAIN binding_intervals_ :
         binding_intervals_[s2].name = n => s2 = s
    /\ \E i \in Positions :
         /\ Occupant(i).site = s
         /\ Occupant(i).start <= binding_intervals_[s].stop

\* C10: a successful Bind leaves the polymerase at the chosen promoter's start
\* with stop = start + footprint - 1, the promoter covered, uncovered_ of its
\* name one less and the polymerase among the occupants; and while the only
\* promoter of a name holds the polymerase bound at it, a Bind for that name
\* fails with NoFreePromoter.
C10_BindEffect ==
  [][\A kind \in PolKinds, promoter_name \in PromoterNames :
       /\ (Bind(kind, promoter_name) /\ err' = "ok") =>
            LET p == Len(pols')
                elem == pols'[p].site
            IN /\ Len(pols') = Len(pols) + 1
               /\ elem \in DOMAIN binding_intervals_
               /\ binding_intervals_[elem].name = promoter_name
               /\ pols'[p].start = binding_intervals_[elem].start
               /\ pols'[p].stop = pols'[p].start + kind.footprint - 1
               /\ covered'[elem]
               /\ promoter_name \in DOMAIN uncovered_
               /\ uncovered_'[promoter_name] = uncovered_[promoter_name] - 1
               /\ \E i \in 1 .. Len(polymerases_') : polymerases_'[i] = p
       /\ (Bind(kind, promoter_name) /\ SinglePromoterHeld(promoter_name)) =>
            err' = "NoFreePromoter"]_vars

\* Promoters named n that lie wholly before the mask, in [start_, mask_.start).
BeforeMask(n) ==
  { s \in DOMAIN binding_intervals_ :
      /\ binding_intervals_[s].name = n
      /\ start_ <= binding_intervals_[s].start
      /\ binding_intervals_[s].stop < mask_.start }

\* C11: an Initialize that returns leaves every promoter that overlaps the
\* mask [mask_.start, mask_.stop] covered and out of uncovered_, and every
\* promoter in [start_, mask_.start) uncovered and counted once in uncovered_
\* of its name; and a Bind only ever selects a promoter that lies in
\* [start_, mask_.start).
C11_MaskedPromotersStayCovered ==
  [][/\ (Initialize /\ err' = "ok") =>
          /\ \A s \in DOMAIN binding_intervals_ :
               covered'[s] <=>
                 SpansMeet(binding_intervals_[s].start,
                           binding_intervals_[s].stop,
                           mask_.start, mask_.stop)
          /\ \A n \in PromoterNames :
               Count(uncovered_', n) = Cardinality(BeforeMask(n))
     /\ \A kind \in PolKinds, promoter_name \in PromoterNames :
          (Bind(kind, promoter_name) /\ err' = "ok") =>
            pols'[Len(pols')].site \in BeforeMask(promoter_name)]_vars

\* C12: an Execute on a polymer whose prop_sum_ is 0 (no occupant, or only
\* occupants of propensity 0) fails with NoPropensity and has moved no
\* polymerase and changed no occupant, propensity, mask or site state.
C12_ZeroSumExecuteChangesNothing ==
  [][(Execute /\ prop_sum_ = 0) =>
       /\ err' = "NoPropensity"
       /\ UNCHANGED << pols, polymerases_, prop_list_, prop_sum_, mask_,
                       binding_sites_, release_sites_, covered, saved,
                       readthrough, uncovered_, terminations >>]_vars

\* C12 witness: Execute has failed with NoPropensity on a polymer that holds
\* a polymerase of propensity 0.
C12_Witness ==
  /\ err = "NoPropensity"
  /\ Len(polymerases_) >= 1
  /\ \A i \in Positions : prop_list_[i] = 0

\* C13: over any sequence of Genome::Bind calls, transcript_signal_ is emitted
\* exactly once by a Bind that succeeds and not at all by a Bind that fails,
\* and no other call emits it; so the number of transcripts emitted is the
\* number of polymerases ever inserted among the genome's occupants.
C13_OneTranscriptPerBind ==
  /\ [](Len(transcripts) = Len(pols))
  /\ [][/\ \A kind \in PolKinds, promoter_name \in PromoterNames :
            GenomeBind(kind, promoter_name) =>
              IF err' = "ok"
              THEN /\ Len(transcripts') = Len(transcripts) + 1
                   /\ SubSeq(transcripts', 1, Len(transcripts)) = transcripts
                   /\ transcripts'[Len(transcripts')].pol = Len(pols')
              ELSE /\ transcripts' = transcripts
                   /\ pols' = pols
       /\ (GenomeInitialize \/ Execute) =>
            Len(transcripts') = Len(transcripts)]_vars

\* C13 witness: two binds have succeeded, each with its transcript, and the
\* latest bind has failed.
C13_Witness ==
  /\ Len(transcripts) = 2
  /\ Len(pols) = 2
  /\ transcripts[1].pol = 1
  /\ transcripts[2].pol = 2
  /\ err \in BindErrors

\* The mask of transcript t spans [lo, hi], and its binding and release
\* sites are copies of exactly the template sites that lie wholly inside
\* [lo, hi].
MaskAndSitesCover(t, lo, hi) ==
  /\ t.mask_.start = lo
  /\ t.mask_.stop = hi
  /\ DOMAIN t.binding_intervals_ =
       { g \in DOMAIN transcript_rbs_intervals_ :
           /\ lo <= transcript_rbs_intervals_[g].start
           /\ transcript_rbs_intervals_[g].stop <= hi }
  /\ \A g \in DOMAIN t.binding_intervals_ :
       t.binding_intervals_[g] = transcript_rbs_intervals_[g]
  /\ DOMAIN t.release_intervals_ =
       { g \in DOMAIN transcript_stop_site_intervals_ :
           /\ lo <= transcript_stop_site_intervals_[g].start
           /\ transcript_stop_site_intervals_[g].stop <= hi }
  /\ \A g \in DOMAIN t.release_intervals_ :
       t.release_intervals_[g] = transcript_stop_site_intervals_[g]

\* C14 as stated: the transcript built by a Bind of a polymerase on a genome
\* has the bounds start = pol.stop and stop = genome.stop, a mask over
\* [pol.stop, genome.stop], and clones of exactly the template sites that lie
\* wholly inside [pol.stop, genome.stop].
C14_TranscriptCoversSubrange ==
  [][\A kind \in PolKinds, promoter_name \in PromoterNames :
       (err' = "ok" /\ GenomeBind(kind, promoter_name)) =>
         LET t == transcripts'[Len(transcripts')]
             pol == pols'[Len(pols')]
         IN /\ t.start_ = pol.stop
            /\ t.stop_ = stop_
            /\ MaskAndSitesCover(t, pol.stop, stop_)]_vars

\* C14 amended: the transcript built by a Bind of a polymerase on a genome
\* has the genome's own bounds, start = genome.start and stop = genome.stop;
\* its mask spans [pol.stop, genome.stop], and its sites are clones of exactly
\* the template sites that lie wholly inside [pol.stop, genome.stop].
C14_TranscriptKeepsGenomeBounds ==
  [][\A kind \in PolKinds, promoter_name \in PromoterNames :
       (err' = "ok" /\ GenomeBind(kind, promoter_name)) =>
         LET t == transcripts'[Len(transcripts')]
             pol == pols'[Len(pols')]
         IN /\ t.start_ = start_
            /\ t.stop_ = stop_
            /\ MaskAndSitesCover(t, pol.stop, stop_)]_vars

\* C14 witness: a polymerase was bound with its stop at 3, past the genome's
\* start; its transcript has the genome's start, took the stop codons that
\* lie inside [3, stop_] and left out a ribosome binding site that does not.
C14_Witness ==
  \E k \in DOMAIN transcripts :
    /\ transcripts[k].start_ = start_
    /\ transcripts[k].mask_.start = 3
    /\ pols[transcripts[k].pol].stop = 3
    /\ DOMAIN transcripts[k].release_intervals_ # {}
    /\ DOMAIN transcripts[k].binding_intervals_ #
         DOMAIN transcript_rbs_intervals_

\* C15: after any sequence of connect and disconnect calls on a Signal, emit
\* calls every slot that is connected at that moment exactly once, in the
\* order in which the slots were connected, and calls no slot that was
\* disconnected; the calls are made inside emit, before it returns.
C15_EmitInConnectionOrder ==
  [][SignalEmit =>
       /\ Len(invoked') = Len(handles)
       /\ \A i \in 1 .. Len(handles) : invoked'[i] = handles[i].slot]_vars

\* C15 witness: three slots were connected, the second was disconnected, and
\* emit has called the first and the third, in that order.
C15_Witness ==
  /\ current_id_ = 3
  /\ Len(handles) = 2
  /\ handles[1].id = 1
  /\ handles[2].id = 3
  /\ handles[1].slot # handles[2].slot
  /\ invoked = << handles[1].slot, handles[2].slot >>

\* The step is an Execute that chose position i of polymerases_.
ExecuteChose(i) ==
  /\ ~ZeroPropensity(prop_sum_)
  /\ i \in Choose
  /\ \E out \in Move(i) :
       /\ pols' = out.pols
       /\ polymerases_' = out.polymerases_
       /\ prop_list_' = out.prop_list_
       /\ prop_sum_' = out.prop_sum_
       /\ mask_' = out.mask_
       /\ covered' = out.covered
       /\ readthrough' = out.readthrough
       /\ terminations' = out.terminations
       /\ err' = out.err
  /\ Execute

\* The occupant at position i ends one coordinate before the next occupant.
TouchesNext(i) ==
  /\ i + 1 \in Positions
  /\ Occupant(i).stop + 1 = Occupant(i + 1).start

\* C16: when Execute chooses the occupant at position i and
\* occupants[i].stop + 1 = occupants[i+1].start before the move, the move is
\* rolled back: Execute returns, both polymerases have their previous start
\* and stop, and prop_list_, prop_sum_, the mask and every cover bit are
\* unchanged.
C16_PolCollisionRollsBack ==
  [][\A i \in 1 .. MaxPols :
       (TouchesNext(i) /\ ExecuteChose(i)) =>
         /\ err' = "ok"
         /\ UNCHANGED << pols, polymerases_, prop_list_, prop_sum_, mask_,
                         covered >>]_vars

\* C16 witness: two polymerases sit at their promoters, the first one
\* coordinate before the second, and an Execute has returned: with no mask
\* ahead and the second polymerase short of the polymer's end, that Execute
\* chose the first one and rolled its move back.
C16_Witness ==
  /\ err = "ok"
  /\ Len(polymerases_) = 2
  /\ species_log_ = EmptyMap
  /\ terminations = << >>
  /\ ~SomeOccupantMoved
  /\ TouchesNext(1)
  /\ prop_list_[1] > 0
  /\ Occupant(2).stop < stop_
  /\ mask_.start > stop_

\* One more position brings the stop of the occupant at position i onto the
\* start of a mask that is not empty.
ReachesMask(i) ==
  /\ i \in Positions
  /\ mask_.start <= mask_.stop
  /\ Occupant(i).stop + 1 = mask_.start

\* C17: when Execute advances a polymerase whose stop thereby comes onto
\* mask_.start of a non-empty mask, then if the mask's interactions hold the
\* polymerase's name, mask_.start grows by exactly 1 and the polymerase keeps
\* its advanced position; otherwise the polymerase is back at its previous
\* position and mask_.start, prop_list_ and prop_sum_ are unchanged.  In
\* every step mask_.start does not decrease and does not exceed stop_ + 1.
C17_MaskCollisionOutcome ==
  [][/\ \A i \in 1 .. MaxPols :
          (ReachesMask(i) /\ ExecuteChose(i)) =>
            LET p == polymerases_[i]
            IN IF pols[p].name \in mask_.interactions
               THEN /\ mask_'.start = mask_.start + 1
                    /\ pols'[p].start = pols[p].start + 1
                    /\ pols'[p].stop = pols[p].stop + 1
               ELSE /\ pols'[p] = pols[p]
                    /\ mask_'.start = mask_.start
                    /\ UNCHANGED << prop_list_, prop_sum_ >>
     /\ mask_'.start >= mask_.start
     /\ mask_'.start <= stop_ + 1]_vars

\* The polymerases that termination_signal_ has reported.
Terminated == { terminations[k].pol : k \in DOMAIN terminations }

\* C18: when a polymerase terminates in an Execute, termination_signal_ is
\* emitted exactly once, with that polymerase's name and the gene of the
\* terminator it met; the polymerase and its own entry of prop_list_ are
\* removed, the other occupants and entries keep their values and order, and
\* prop_sum_ drops by the removed entry.  A polymerase that was removed is
\* no occupant afterwards, so no later Execute chooses it.
C18_TerminationRemovesOne ==
  /\ [](\A i \in Positions : polymerases_[i] \notin Terminated)
  /\ [][\A i \in 1 .. MaxPols :
          (/\ \/ Len(polymerases_') # Len(polymerases_)
              \/ terminations' # terminations
           /\ ExecuteChose(i)) =>
            LET p == polymerases_[i]
                n == Len(terminations)
            IN /\ Len(terminations') = n + 1
               /\ SubSeq(terminations', 1, n) = terminations
               /\ terminations'[n + 1].pol = p
               /\ terminations'[n + 1].name = pols[p].name
               /\ \E t \in release_sites_ :
                    /\ SpansMeet(release_intervals_[t].start,
                                 release_intervals_[t].stop,
                                 pols'[p].start, pols'[p].stop)
                    /\ terminations'[n + 1].gene = release_intervals_[t].gene
               /\ polymerases_' = RemoveAt(polymerases_, i)
               /\ prop_list_' = RemoveAt(prop_list_, i)
               /\ prop_sum_' = prop_sum_ - prop_list_[i]]_vars

\* C18 witness: the polymerase bound second has terminated and the one bound
\* first is still an occupant, alone with its propensity.
C18_Witness ==
  /\ err = "ok"
  /\ Len(terminations) = 1
  /\ terminations[1].pol = 2
  /\ polymerases_ = << 1 >>
  /\ prop_list_[1] > 0
  /\ prop_sum_ = prop_list_[1]

\* C19: when a polymerase terminates at a terminator T of the genome, its
\* move_signal_ is emitted max(0, T.stop - pol.stop + 1) more times before it
\* is removed (none when pol.stop is past T.stop), so that when Execute
\* returns the mask of the transcript spawned by that polymerase starts at
\* T.stop + 1, if pol.stop was at or before T.stop.
C19_TranscriptMaskAtTerminatorEnd ==
  [][\A i \in 1 .. MaxPols :
       (Len(terminations') > Len(terminations) /\ ExecuteChose(i)) =>
         LET p == polymerases_[i]
             last == terminations'[Len(terminations')]
         IN \E t \in release_sites_ :
              LET dist == release_intervals_[t].stop - pols'[p].stop + 1
              IN /\ last.gene = release_intervals_[t].gene
                 /\ last.emits = (IF dist > 0 THEN dist ELSE 0)
                 /\ \A k \in DOMAIN transcripts :
                      (transcripts[k].pol = p /\ dist > 0) =>
                        transcripts'[k].mask_.start =
                          release_intervals_[t].stop + 1]_vars

\* C20: the readthrough flag that a failed termination draw sets on a
\* terminator is cleared once the polymerase has passed the terminator's
\* stop, so that a later polymerase faces the draw again: after a call that
\* returns, the flag is set only while some occupant has not yet passed the
\* terminator it is reading through.
C20_ReadthroughIsCleared ==
  ~Fatal =>
    \A t \in DOMAIN readthrough :
      readthrough[t] =>
        \E i \in Positions :
          SpansMeet(Occupant(i).start, Occupant(i).stop,
                    release_intervals_[t].start, release_intervals_[t].stop)

\* C21: after every Execute that returns, the mask of a transcript spawned by
\* a Bind on the genome starts at the stop of its parent polymerase, as long
\* as that polymerase is bound: the mask recedes by one for each net advance
\* of the parent and not at all when the parent's step is rolled back after
\* a collision with a polymerase or with the mask.
C21_TranscriptMaskFollowsParent ==
  err = "ok" =>
    \A k \in DOMAIN transcripts :
      (\E i \in Positions : polymerases_[i] = transcripts[k].pol) =>
        transcripts[k].mask_.start = pols[transcripts[k].pol].stop

====
